---- MODULE Spec2Model ----
(***************************************************************************)
(* Model of the tolerant CSV ingestion of src/model_training.py             *)
(* (find_best_csv, _try_read and load_data) and of the main loop of the    *)
(* data logger of src/data_logger.py.                                      *)
(*                                                                         *)
(* Text (file names excepted) is a sequence of one-character strings, so   *)
(* that strip(), lower(), "in", replace() and startswith() are computed.   *)
(* A file's lines are run-length encoded: a block [n, c, s] is n           *)
(* consecutive lines with c comma-separated and s semicolon-separated      *)
(* fields.  pandas.read_csv is a library: what it yields for the file      *)
(* under each strategy is part of the environment (variable pandas).       *)
(***************************************************************************)
EXTENDS Integers, Sequences, FiniteSets, TLC

VARIABLES
    fs,           \* file system: path -> [exists, size]
    listing,      \* order in which the directory listing yields the names
    pandas,       \* strategy 1..7 -> what pd.read_csv does on the file
    lines,        \* the file's lines, run-length encoded
    readable,     \* whether open(path) succeeds
    call,         \* the invocation: [op, base_dir, preferred, path]
    pc,           \* position in the invoked function
    path,         \* load_data's / _try_read's path
    found,        \* find_best_csv's return value
    err,          \* the exception that left the invoked function
    att,          \* index into attempts (the for loop of _try_read)
    tried,        \* strategies attempted so far, in order
    last_exc,     \* _try_read's last_exc
    df,           \* the DataFrame: [by, cols]
    sample_lines, \* _try_read's sample_lines: [state, blocks]
    chosen_sep, modal_cols, kept, total, cleaned_rows,
    found_col,    \* load_data's found_col
    rule,         \* the rule of load_data that set found_col
    arr,          \* load_data's return value: [returned, values]
    first,        \* what the first invocation of load_data ended with
    ncalls,       \* number of invocations of load_data so far
    lpc,          \* position in the main loop of src/data_logger.py
    iter,         \* iterations of the main loop begun so far
    nfail,        \* iterations whose sensor read failed
    pm2_5, pm10, status,   \* what read_sds011 returned to the loop
    pm2_5_history, pm10_history,
    csv_file,     \* the rows of CSV_FILE
    readings      \* the successful reads so far, in arrival order

vars == <<fs, listing, pandas, lines, readable, call, pc, path, found, err,
          att, tried, last_exc, df, sample_lines, chosen_sep, modal_cols,
          kept, total, cleaned_rows, found_col, rule, arr, first, ncalls,
          lpc, iter, nfail, pm2_5, pm10, status, pm2_5_history, pm10_history,
          csv_file, readings>>

envVars == <<fs, listing, pandas, lines, readable, call>>
readVars == <<att, tried, last_exc, df, sample_lines, chosen_sep, modal_cols,
              kept, total, cleaned_rows>>
selectVars == <<found_col, rule, arr>>
callsVars == <<first, ncalls>>
loaderVars == <<envVars, pc, path, found, err, readVars, selectVars, callsVars>>
loggerVars == <<lpc, iter, nfail, pm2_5, pm10, status, pm2_5_history,
                pm10_history, csv_file, readings>>

(***************************************************************************)
(* Bounds of the model.                                                    *)
(***************************************************************************)
MaxSize == 2      \* file sizes range over 0..MaxSize
MaxBlocks == 2    \* a file has at most MaxBlocks runs of equal lines
MaxCols == 2      \* a parsed table has at most MaxCols columns
MaxRows == 2      \* a parsed table has at most MaxRows rows
MaxCalls == 2     \* load_data is invoked at most MaxCalls times in a row
MaxIter == 52     \* the main loop of the logger runs at most MaxIter times
MaxFails == 1     \* at most MaxFails of these iterations fail to read

(***************************************************************************)
(* Sequence helpers.                                                       *)
(***************************************************************************)
Range(s) == {s[i] : i \in 1..Len(s)}

SeqsUpTo(S, n) == UNION {[1..k -> S] : k \in 0..n}

Perms(S) == {p \in [1..Cardinality(S) -> S] : Range(p) = S}

Max(a, b) == IF a >= b THEN a ELSE b

Min(a, b) == IF a <= b THEN a ELSE b

(***************************************************************************)
(* The file system and find_best_csv.                                      *)
(***************************************************************************)
BASE_DIR == "base"
OTHER_DIR == "data"
Dirs == {BASE_DIR, OTHER_DIR}

PREFERRED_FILENAME == "live_air_quality.csv"
DATA_NAME == "air_quality_data.csv"
EXPORT_NAME == "export.csv"
NOTES_NAME == "notes.txt"
Names == {PREFERRED_FILENAME, DATA_NAME, EXPORT_NAME, NOTES_NAME}

\* the names that the pattern "*.csv" matches
CsvNames == {PREFERRED_FILENAME, DATA_NAME, EXPORT_NAME}

join(d, n) == [dir |-> d, name |-> n]
Paths == {join(d, n) : d \in Dirs, n \in Names}
None == [dir |-> "", name |-> ""]

DATA_FILE == join(BASE_DIR, DATA_NAME)

Absent == [exists |-> FALSE, size |-> 0]
FileStates == {Absent} \cup {[exists |-> TRUE, size |-> z] : z \in 0..MaxSize}

exists(p) == p \in DOMAIN fs /\ fs[p].exists
getsize(p) == fs[p].size

\* glob(os.path.join(base_dir, "*.csv")): the existing matches, in listing order
glob(base_dir) ==
    LET all == [i \in 1..Len(listing) |-> join(base_dir, listing[i])]
        Hit(p) == p.name \in CsvNames /\ exists(p)
    IN  SelectSeq(all, Hit)

\* list.sort(key=lambda t: t[1], reverse=True): stable, descending by size
RECURSIVE InsertDesc(_, _)
InsertDesc(sorted, t) ==
    IF sorted = <<>> THEN <<t>>
    ELSE IF Head(sorted)[2] >= t[2] THEN <<Head(sorted)>> \o InsertDesc(Tail(sorted), t)
    ELSE <<t>> \o sorted

RECURSIVE SortDesc(_)
SortDesc(s) ==
    IF s = <<>> THEN <<>>
    ELSE InsertDesc(SortDesc(SubSeq(s, 1, Len(s) - 1)), s[Len(s)])

Returns(p) == [ret |-> p, exc |-> "None"]
Raises(e) == [ret |-> None, exc |-> e]

pref_ok(base_dir, preferred) ==
    exists(join(base_dir, preferred)) /\ getsize(join(base_dir, preferred)) > 0

data_file_ok == exists(DATA_FILE) /\ getsize(DATA_FILE) > 0

non_empty(base_dir) ==
    LET csvs == glob(base_dir)
        Sized(p) == getsize(p) > 0
        kept_ == SelectSeq(csvs, Sized)
    IN  [i \in 1..Len(kept_) |-> <<kept_[i], getsize(kept_[i])>>]

find_best_csv(base_dir, preferred) ==
    IF pref_ok(base_dir, preferred) THEN Returns(join(base_dir, preferred))
    ELSE IF data_file_ok THEN Returns(DATA_FILE)
    ELSE IF glob(base_dir) = <<>> THEN Raises("FileNotFoundError")
    ELSE IF non_empty(base_dir) = <<>> THEN Raises("ValueError")
    ELSE Returns(SortDesc(non_empty(base_dir))[1][1])

(***************************************************************************)
(* Text: sequences of one-character strings.                               *)
(***************************************************************************)
UpperChars == <<"A","B","C","D","E","F","G","H","I","J","K","L","M",
                "N","O","P","Q","R","S","T","U","V","W","X","Y","Z">>
LowerChars == <<"a","b","c","d","e","f","g","h","i","j","k","l","m",
                "n","o","p","q","r","s","t","u","v","w","x","y","z">>
Digits == <<"0","1","2","3","4","5","6","7","8","9">>
Whitespace == {" ", "\t"}

IndexOf(seq, ch) ==
    IF \E i \in 1..Len(seq) : seq[i] = ch
    THEN CHOOSE i \in 1..Len(seq) : seq[i] = ch
    ELSE 0

\* str.lower()
lower(s) ==
    [i \in 1..Len(s) |->
        IF IndexOf(UpperChars, s[i]) > 0 THEN LowerChars[IndexOf(UpperChars, s[i])]
        ELSE s[i]]

\* str.strip()
strip(s) ==
    LET solid == {i \in 1..Len(s) : s[i] \notin Whitespace}
    IN  IF solid = {} THEN <<>>
        ELSE LET lo == CHOOSE i \in solid : \A j \in solid : i <= j
                 hi == CHOOSE i \in solid : \A j \in solid : i >= j
             IN  SubSeq(s, lo, hi)

\* sub in s
contains(s, sub) ==
    \E i \in 1..(Len(s) - Len(sub) + 1) : SubSeq(s, i, i + Len(sub) - 1) = sub

\* s.replace(ch, "")
remove(s, ch) == LET Keep(c) == c # ch IN SelectSeq(s, Keep)

\* s.startswith(p)
startswith(s, p) == Len(s) >= Len(p) /\ SubSeq(s, 1, Len(p)) = p

(***************************************************************************)
(* Tables as pandas yields them: a sequence of columns, each a header and  *)
(* the text of its cells.  What pd.read_csv does under one strategy is     *)
(* either an exception or a table (possibly with no column).               *)
(***************************************************************************)
Column(name, cells) == [name |-> name, cells |-> cells]

PdRaises == [raises |-> TRUE, cols |-> <<>>]
PdTable(t) == [raises |-> FALSE, cols |-> t]

NoExc == [type |-> "None", at |-> 0]
Exc(type, k) == [type |-> type, at |-> k]

NoDf == [by |-> 0, cols |-> <<>>]
NoErr == [type |-> "None", last |-> NoExc, cols |-> <<>>]
Error(type) == [type |-> type, last |-> NoExc, cols |-> <<>>]

(***************************************************************************)
(* _try_read: run-length encoded lines and the modal-column-count cleaner. *)
(***************************************************************************)
SAMPLE_SIZE == 2000

Block(n, c, s) == [n |-> n, c |-> c, s |-> s]

RECURSIVE TotalLines(_)
TotalLines(blocks) ==
    IF blocks = <<>> THEN 0 ELSE Head(blocks).n + TotalLines(Tail(blocks))

\* the first n lines of the file
RECURSIVE Take(_, _)
Take(blocks, n) ==
    IF n = 0 \/ blocks = <<>> THEN <<>>
    ELSE IF Head(blocks).n >= n THEN <<[Head(blocks) EXCEPT !.n = n]>>
    ELSE <<Head(blocks)>> \o Take(Tail(blocks), n - Head(blocks).n)

\* len(ln.split(sep))
FieldCount(b, sep) == IF sep = "," THEN b.c ELSE b.s

\* the keys of counts, in insertion order
RECURSIVE CountKeys(_, _)
CountKeys(blocks, sep) ==
    IF blocks = <<>> THEN <<>>
    ELSE LET before == CountKeys(SubSeq(blocks, 1, Len(blocks) - 1), sep)
             k == FieldCount(blocks[Len(blocks)], sep)
         IN  IF k \in Range(before) THEN before ELSE Append(before, k)

\* counts[k]
RECURSIVE CountOf(_, _, _)
CountOf(blocks, sep, k) ==
    IF blocks = <<>> THEN 0
    ELSE (IF FieldCount(Head(blocks), sep) = k THEN Head(blocks).n ELSE 0)
         + CountOf(Tail(blocks), sep, k)

\* max(counts.items(), key=lambda kv: kv[1]): the first item of greatest value
modal_count(blocks, sep) ==
    LET keys == CountKeys(blocks, sep)
        freq(i) == CountOf(blocks, sep, keys[i])
        best == CHOOSE i \in 1..Len(keys) :
                    /\ \A j \in 1..Len(keys) : freq(j) <= freq(i)
                    /\ \A j \in 1..(i - 1) : freq(j) < freq(i)
    IN  <<keys[best], freq(best)>>

comma_mode(sample) == modal_count(sample, ",")
semi_mode(sample) == modal_count(sample, ";")

choose_sep(sample) == IF comma_mode(sample)[2] >= semi_mode(sample)[2] THEN "," ELSE ";"

choose_modal_cols(sample) ==
    IF choose_sep(sample) = "," THEN comma_mode(sample)[1] ELSE semi_mode(sample)[1]

\* the lines of the file whose field count equals modal_cols
clean(blocks, sep, cols) ==
    LET Match(b) == FieldCount(b, sep) = cols IN SelectSeq(blocks, Match)

Unbound == [state |-> "unbound", blocks |-> <<>>]
SampleNone == [state |-> "None", blocks |-> <<>>]
SampleList(blocks) == [state |-> "list", blocks |-> blocks]

\* lines 76-85: the sample of the first SAMPLE_SIZE lines
read_sample ==
    IF ~readable THEN SampleNone
    ELSE IF TotalLines(lines) >= SAMPLE_SIZE THEN SampleList(Take(lines, SAMPLE_SIZE))
    ELSE Unbound

\* where a successful _try_read goes on
AfterRead == IF call.op = "load_data" THEN "select" ELSE "done"

\* raise RuntimeError(f"Failed to parse file {path}. Last error: {last_exc}")
FailedToParse(exc) == [type |-> "RuntimeError", last |-> exc, cols |-> <<>>]

\* Attempt without the check of df.shape[1]
Attempt_NoColumnCheck ==
    /\ pc = "attempts"
    /\ tried' = Append(tried, att)
    /\ IF pandas[att].raises
       THEN /\ last_exc' = Exc("ParserError", att)
            /\ df' = df
            /\ att' = att + 1
            /\ pc' = IF att = 4 THEN "skip_bad_lines" ELSE "attempts"
       ELSE /\ df' = [by |-> att, cols |-> pandas[att].cols]
            /\ pc' = AfterRead
            /\ UNCHANGED <<last_exc, att>>
    /\ UNCHANGED <<loggerVars, callsVars, envVars, path, found, err, sample_lines, chosen_sep,
                   modal_cols, kept, total, cleaned_rows, selectVars>>

\* lines 47-55: one iteration of the loop over attempts
Attempt ==
    /\ pc = "attempts"
    /\ tried' = Append(tried, att)
    /\ IF pandas[att].raises
       THEN /\ last_exc' = Exc("ParserError", att)
            /\ df' = df
            /\ att' = att + 1
            /\ pc' = IF att = 4 THEN "skip_bad_lines" ELSE "attempts"
       ELSE IF Len(pandas[att].cols) = 0
       THEN /\ last_exc' = Exc("EmptyDataError", att)
            /\ df' = df
            /\ att' = att + 1
            /\ pc' = IF att = 4 THEN "skip_bad_lines" ELSE "attempts"
       ELSE /\ df' = [by |-> att, cols |-> pandas[att].cols]
            /\ pc' = AfterRead
            /\ UNCHANGED <<last_exc, att>>
    /\ UNCHANGED <<loggerVars, callsVars, envVars, path, found, err, sample_lines, chosen_sep,
                   modal_cols, kept, total, cleaned_rows, selectVars>>

\* lines 58-64 and 67-73: a read that skips bad lines; zero columns raise nothing
Lenient(k, next) ==
    /\ tried' = Append(tried, k)
    /\ IF pandas[k].raises
       THEN /\ last_exc' = Exc("ParserError", k)
            /\ df' = df
            /\ pc' = next
       ELSE IF Len(pandas[k].cols) > 0
       THEN /\ df' = [by |-> k, cols |-> pandas[k].cols]
            /\ pc' = AfterRead
            /\ last_exc' = last_exc
       ELSE /\ pc' = next
            /\ UNCHANGED <<last_exc, df>>
    /\ UNCHANGED <<loggerVars, callsVars, envVars, path, found, err, att, sample_lines, chosen_sep,
                   modal_cols, kept, total, cleaned_rows, selectVars>>

SkipBadLines ==
    /\ pc = "skip_bad_lines"
    /\ Lenient(5, "quote_none")

QuoteNone ==
    /\ pc = "quote_none"
    /\ Lenient(6, "sample")

\* lines 76-85
Sample ==
    /\ pc = "sample"
    /\ tried' = Append(tried, 7)
    /\ sample_lines' = read_sample
    /\ pc' = "modal"
    /\ UNCHANGED <<loggerVars, callsVars, envVars, path, found, err, att, last_exc, df, chosen_sep,
                   modal_cols, kept, total, cleaned_rows, selectVars>>

\* lines 87-131
ModalClean ==
    /\ pc = "modal"
    /\ IF sample_lines.state = "unbound"
       THEN \* "if sample_lines:" reads a local that was never assigned
            /\ err' = Error("UnboundLocalError")
            /\ pc' = "done"
            /\ UNCHANGED <<last_exc, df, chosen_sep, modal_cols, kept, total, cleaned_rows>>
       ELSE IF sample_lines.blocks = <<>>
       THEN /\ err' = FailedToParse(last_exc)
            /\ pc' = "done"
            /\ UNCHANGED <<last_exc, df, chosen_sep, modal_cols, kept, total, cleaned_rows>>
       ELSE LET sep == choose_sep(sample_lines.blocks)
                cols == choose_modal_cols(sample_lines.blocks)
                rows == clean(lines, sep, cols)
            IN  /\ chosen_sep' = sep
                /\ modal_cols' = cols
                /\ cleaned_rows' = rows
                /\ kept' = TotalLines(rows)
                /\ total' = TotalLines(lines)
                /\ IF TotalLines(rows) = 0
                   THEN /\ last_exc' = Exc("RuntimeError", 7)
                        /\ err' = FailedToParse(Exc("RuntimeError", 7))
                        /\ pc' = "done"
                        /\ df' = df
                   ELSE IF pandas[7].raises
                   THEN /\ last_exc' = Exc("ParserError", 7)
                        /\ err' = FailedToParse(Exc("ParserError", 7))
                        /\ pc' = "done"
                        /\ df' = df
                   ELSE IF Len(pandas[7].cols) = 0
                   THEN /\ last_exc' = Exc("EmptyDataError", 7)
                        /\ err' = FailedToParse(Exc("EmptyDataError", 7))
                        /\ pc' = "done"
                        /\ df' = df
                   ELSE /\ df' = [by |-> 7, cols |-> pandas[7].cols]
                        /\ pc' = AfterRead
                        /\ UNCHANGED <<last_exc, err>>
    /\ UNCHANGED <<loggerVars, callsVars, envVars, path, found, att, tried, sample_lines, selectVars>>

NextRead == Attempt \/ SkipBadLines \/ QuoteNone \/ Sample \/ ModalClean

(***************************************************************************)
(* load_data: entry checks, target-column selection, numeric coercion.     *)
(***************************************************************************)
\* lines 148-152
candidates == <<
    <<"p","m","2","5">>,
    <<"p","m","_","2","5">>,
    <<"p","m","2","_","5">>,
    <<"p","m","2",".","5">>,
    <<"p","m","2","_","5","(","u","g","/","m","3",")">>,
    <<"p","m","2",".","5","(","u","g","/","m","3",")">>,
    <<"p","m","2","_","5","_","u","g","_","m","3">>,
    <<"p","m","2","5","_","u","g","m","3">>,
    <<"p","m","2","_","5","_","u","g","m","3">>,
    <<"p","m","_","2","_","5">>,
    <<"p","m","2","5"," ","(","u","g","/","m","3",")">>,
    <<"p","m","2",".","5","_","u","g","m","3">>,
    <<"p","m","2","_","5","_","u","g","/","m","3">> >>

S_pm2 == <<"p","m","2">>
S_pm_2 == <<"p","m"," ","2">>
S_pm2_5 == <<"p","m","2",".","5">>
S_pm25 == <<"p","m","2","5">>
S_value == <<"v","a","l","u","e">>
S_measurement == <<"m","e","a","s","u","r","e","m","e","n","t">>

\* headers and cell texts the tables of the model are built from
H_pm2_5 == <<"p","m","2","_","5">>
H_PM25_padded == <<" ","P","M","2","5"," ">>
H_pm25 == <<"p","m","2","5">>
H_pm25_padded == <<"p","m","2","5"," ">>
H_PM25_unit == <<"P","M","2",".","5"," ","(","u","g","/","m","3",")">>
H_P_M_25 == <<"P",".","M","_","2","5">>
H_time == <<"t","i","m","e">>
H_temp == <<"t","e","m","p">>
H_Value == <<"V","a","l","u","e">>
H_measurement == <<"m","e","a","s","u","r","e","m","e","n","t">>
Headers == {H_pm2_5, H_PM25_padded, H_PM25_unit, H_P_M_25, H_time,
            H_temp, H_Value, H_measurement}

C_12 == <<"1","2">>
C_3_5 == <<"3",".","5">>
C_7 == <<"7">>
C_NA == <<"N","/","A">>
C_abc == <<"a","b","c">>
C_empty == <<>>
Cells == {C_12, C_3_5, C_7, C_NA, C_abc, C_empty}

\* what pandas reads as a missing value
NaTokens == {C_NA, C_empty}

IsDigit(ch) == IndexOf(Digits, ch) > 0

RECURSIVE IntVal(_)
IntVal(s) ==
    IF s = <<>> THEN 0
    ELSE 10 * IntVal(SubSeq(s, 1, Len(s) - 1)) + (IndexOf(Digits, s[Len(s)]) - 1)

AllDigits(s) == Len(s) > 0 /\ \A i \in 1..Len(s) : IsDigit(s[i])

\* digits, or digits "." digit
is_number(s) ==
    \/ AllDigits(s)
    \/ /\ Len(s) >= 3
       /\ s[Len(s) - 1] = "."
       /\ IsDigit(s[Len(s)])
       /\ AllDigits(SubSeq(s, 1, Len(s) - 2))

\* the value of a number, in tenths
NumVal(s) ==
    IF AllDigits(s) THEN 10 * IntVal(s)
    ELSE 10 * IntVal(SubSeq(s, 1, Len(s) - 2)) + (IndexOf(Digits, s[Len(s)]) - 1)

\* found_col is None
NoCol == <<>>

names(t) == [i \in 1..Len(t) |-> t[i].name]

\* line 146: df.columns = [str(c).strip() for c in df.columns]
strip_columns(t) == [i \in 1..Len(t) |-> [t[i] EXCEPT !.name = strip(@)]]

\* line 153: col_map = {col.lower(): col for col in df.columns}; a later
\* column replaces an earlier one under the same key
col_map_has(t, key) == \E i \in 1..Len(t) : lower(t[i].name) = key

col_map_get(t, key) ==
    LET hits == {i \in 1..Len(t) : lower(t[i].name) = key}
    IN  t[CHOOSE i \in hits : \A j \in hits : j <= i].name

\* alias_match taking the first column, in table order, that is an alias
alias_match_by_column(t) ==
    LET hits == {i \in 1..Len(t) :
                    \E c \in 1..Len(candidates) : lower(t[i].name) = lower(candidates[c])}
    IN  IF hits = {} THEN NoCol
        ELSE t[CHOOSE i \in hits : \A j \in hits : i <= j].name

\* lines 155-158: the first candidate that is a key of col_map
alias_match(t) ==
    LET hits == {c \in 1..Len(candidates) : col_map_has(t, lower(candidates[c]))}
    IN  IF hits = {} THEN NoCol
        ELSE col_map_get(t, lower(candidates[CHOOSE c \in hits : \A d \in hits : c <= d]))

\* line 163
heuristic(lc) ==
    \/ contains(lc, S_pm2)
    \/ contains(lc, S_pm_2)
    \/ contains(lc, S_pm2_5)
    \/ startswith(remove(remove(lc, "."), "_"), S_pm25)

\* lines 161-165: the first column, in table order, whose header passes
heuristic_match(t) ==
    LET hits == {i \in 1..Len(t) : heuristic(lower(t[i].name))}
    IN  IF hits = {} THEN NoCol
        ELSE t[CHOOSE i \in hits : \A j \in hits : i <= j].name

\* df[name]: the columns under that label (two or more make a DataFrame)
getitem(t, name) == LET Named(c) == c.name = name IN SelectSeq(t, Named)

\* pd.api.types.is_numeric_dtype(df[c]): a column read from text has a
\* numeric dtype iff it has a row and every cell is a number or missing;
\* a DataFrame (duplicated label) has no dtype
is_numeric_dtype(t, name) ==
    /\ Len(getitem(t, name)) = 1
    /\ LET cells == getitem(t, name)[1].cells
       IN  /\ Len(cells) > 0
           /\ \A i \in 1..Len(cells) : cells[i] \in NaTokens \/ is_number(cells[i])

\* line 168
numeric_cols(t) == LET Numeric(c) == is_numeric_dtype(t, c) IN SelectSeq(names(t), Numeric)

\* lines 167-176: <<rule, column>>
fallback_match(t) ==
    IF Len(numeric_cols(t)) = 1 THEN <<3, numeric_cols(t)[1]>>
    ELSE IF col_map_has(t, S_value) THEN <<4, col_map_get(t, S_value)>>
    ELSE IF col_map_has(t, S_measurement) THEN <<4, col_map_get(t, S_measurement)>>
    ELSE <<0, NoCol>>

NaN == [nan |-> TRUE, v |-> 0]
Num(v) == [nan |-> FALSE, v |-> v]

\* line 186: pd.to_numeric(series, errors="coerce")
to_numeric(cells) ==
    [i \in 1..Len(cells) |-> IF is_number(cells[i]) THEN Num(NumVal(cells[i])) ELSE NaN]

\* series.fillna(0) in the place of series.dropna()
dropna_fillna(series) == [i \in 1..Len(series) |-> IF series[i].nan THEN Num(0) ELSE series[i]]

\* line 187: series.dropna()
dropna(series) == LET Valid(x) == ~x.nan IN SelectSeq(series, Valid)

\* line 191: series.values
values(series) == [i \in 1..Len(series) |-> series[i].v]

NoArr == [returned |-> FALSE, values |-> <<>>]

\* LoadDataEntry without the check of os.path.getsize(path)
LoadDataEntry_NoSizeCheck ==
    /\ pc = "call"
    /\ call.op = "load_data"
    /\ LET r == IF call.path = None
                THEN find_best_csv(BASE_DIR, PREFERRED_FILENAME)
                ELSE Returns(call.path)
       IN  IF r.exc # "None"
           THEN /\ err' = Error(r.exc)
                /\ pc' = "done"
                /\ path' = path
           ELSE IF ~exists(r.ret)
           THEN /\ err' = Error("FileNotFoundError")
                /\ pc' = "done"
                /\ path' = r.ret
           ELSE /\ path' = r.ret
                /\ pc' = "attempts"
                /\ err' = err
    /\ UNCHANGED <<loggerVars, callsVars, envVars, found, readVars, selectVars>>

\* lines 135-144: resolve the path, check it, hand it to _try_read
LoadDataEntry ==
    /\ pc = "call"
    /\ call.op = "load_data"
    /\ LET r == IF call.path = None
                THEN find_best_csv(BASE_DIR, PREFERRED_FILENAME)
                ELSE Returns(call.path)
       IN  IF r.exc # "None"
           THEN /\ err' = Error(r.exc)
                /\ pc' = "done"
                /\ path' = path
           ELSE IF ~exists(r.ret)
           THEN /\ err' = Error("FileNotFoundError")
                /\ pc' = "done"
                /\ path' = r.ret
           ELSE IF getsize(r.ret) = 0
           THEN /\ err' = Error("ValueError")
                /\ pc' = "done"
                /\ path' = r.ret
           ELSE /\ path' = r.ret
                /\ pc' = "attempts"
                /\ err' = err
    /\ UNCHANGED <<loggerVars, callsVars, envVars, found, readVars, selectVars>>

\* a call of find_best_csv(base_dir, preferred)
FindBestCsv ==
    /\ pc = "call"
    /\ call.op = "find_best_csv"
    /\ LET r == find_best_csv(call.base_dir, call.preferred)
       IN  /\ found' = r.ret
           /\ err' = IF r.exc = "None" THEN NoErr ELSE Error(r.exc)
    /\ pc' = "done"
    /\ UNCHANGED <<loggerVars, callsVars, envVars, path, readVars, selectVars>>

NextFind == FindBestCsv \/ LoadDataEntry

\* lines 146-158
SelectAlias ==
    /\ pc = "select"
    /\ LET t == strip_columns(df.cols)
       IN  /\ df' = [df EXCEPT !.cols = t]
           /\ found_col' = alias_match(t)
           /\ rule' = IF alias_match(t) = NoCol THEN 0 ELSE 1
    /\ pc' = "heuristic"
    /\ UNCHANGED <<loggerVars, callsVars, envVars, path, found, err, att, tried, last_exc, sample_lines,
                   chosen_sep, modal_cols, kept, total, cleaned_rows, arr>>

\* lines 160-165
SelectHeuristic ==
    /\ pc = "heuristic"
    /\ IF found_col = NoCol
       THEN /\ found_col' = heuristic_match(df.cols)
            /\ rule' = IF heuristic_match(df.cols) = NoCol THEN 0 ELSE 2
       ELSE UNCHANGED <<found_col, rule>>
    /\ pc' = "fallback"
    /\ UNCHANGED <<loggerVars, callsVars, envVars, path, found, err, readVars, arr>>

\* lines 167-176
SelectFallback ==
    /\ pc = "fallback"
    /\ IF found_col = NoCol
       THEN /\ found_col' = fallback_match(df.cols)[2]
            /\ rule' = fallback_match(df.cols)[1]
       ELSE UNCHANGED <<found_col, rule>>
    /\ pc' = "coerce"
    /\ UNCHANGED <<loggerVars, callsVars, envVars, path, found, err, readVars, arr>>

\* Coerce falling back to the first column when no rule resolved one
Coerce_FirstColumn ==
    /\ pc = "coerce"
    /\ LET col == IF found_col = NoCol THEN df.cols[1].name ELSE found_col
       IN  IF Len(getitem(df.cols, col)) > 1
           THEN /\ err' = Error("TypeError")
                /\ arr' = arr
           ELSE LET series == dropna(to_numeric(getitem(df.cols, col)[1].cells))
                IN  IF series = <<>>
                    THEN /\ err' = Error("ValueError")
                         /\ arr' = arr
                    ELSE /\ arr' = [returned |-> TRUE, values |-> values(series)]
                         /\ err' = err
    /\ pc' = "done"
    /\ UNCHANGED <<loggerVars, callsVars, envVars, path, found, readVars, found_col, rule>>

\* Coerce without the check of series.empty
Coerce_NoEmptyCheck ==
    /\ pc = "coerce"
    /\ IF found_col = NoCol
       THEN /\ err' = [type |-> "KeyError", last |-> NoExc, cols |-> names(df.cols)]
            /\ arr' = arr
       ELSE IF Len(getitem(df.cols, found_col)) > 1
       THEN /\ err' = Error("TypeError")
            /\ arr' = arr
       ELSE LET series == dropna(to_numeric(getitem(df.cols, found_col)[1].cells))
            IN  /\ arr' = [returned |-> TRUE, values |-> values(series)]
                /\ err' = err
    /\ pc' = "done"
    /\ UNCHANGED <<loggerVars, callsVars, envVars, path, found, readVars, found_col, rule>>

\* lines 178-193
Coerce ==
    /\ pc = "coerce"
    /\ IF found_col = NoCol
       THEN /\ err' = [type |-> "KeyError", last |-> NoExc, cols |-> names(df.cols)]
            /\ arr' = arr
       ELSE IF Len(getitem(df.cols, found_col)) > 1
       THEN \* pd.to_numeric refuses a DataFrame
            /\ err' = Error("TypeError")
            /\ arr' = arr
       ELSE LET series == dropna(to_numeric(getitem(df.cols, found_col)[1].cells))
            IN  IF series = <<>>
                THEN /\ err' = Error("ValueError")
                     /\ arr' = arr
                ELSE /\ arr' = [returned |-> TRUE, values |-> values(series)]
                     /\ err' = err
    /\ pc' = "done"
    /\ UNCHANGED <<loggerVars, callsVars, envVars, path, found, readVars, found_col, rule>>

NextSelect == SelectAlias \/ SelectHeuristic \/ SelectFallback \/ Coerce

Next == NextFind \/ NextRead \/ NextSelect

(***************************************************************************)
(* load_data invoked again on the same file system.  An invocation starts  *)
(* in a new frame: the for loop of _try_read starts over (line 47), no     *)
(* local is bound, and the module keeps no variable that a call assigns.   *)
(***************************************************************************)
\* what an invocation of load_data ends with
Outcome ==
    [path |-> path, tried |-> tried, by |-> df.by, cols |-> df.cols,
     found_col |-> found_col, rule |-> rule, arr |-> arr, err |-> err]

NoOutcome ==
    [path |-> None, tried |-> <<>>, by |-> 0, cols |-> <<>>,
     found_col |-> NoCol, rule |-> 0, arr |-> NoArr, err |-> NoErr]

\* a new invocation whose attempts are an iterator shared between the calls
Reinvoke_SharedAttemptsIterator ==
    /\ pc = "done"
    /\ call.op = "load_data"
    /\ ncalls < MaxCalls
    /\ first' = IF ncalls = 1 THEN Outcome ELSE first
    /\ ncalls' = ncalls + 1
    /\ pc' = "call"
    /\ path' = None
    /\ found' = None
    /\ err' = NoErr
    /\ att' = att
    /\ tried' = <<>>
    /\ last_exc' = NoExc
    /\ df' = NoDf
    /\ sample_lines' = Unbound
    /\ chosen_sep' = ""
    /\ modal_cols' = 0
    /\ kept' = 0
    /\ total' = 0
    /\ cleaned_rows' = <<>>
    /\ found_col' = NoCol
    /\ rule' = 0
    /\ arr' = NoArr
    /\ UNCHANGED <<loggerVars, envVars>>

\* the caller invokes load_data(path) again once the invocation has ended
Reinvoke ==
    /\ pc = "done"
    /\ call.op = "load_data"
    /\ ncalls < MaxCalls
    /\ first' = IF ncalls = 1 THEN Outcome ELSE first
    /\ ncalls' = ncalls + 1
    /\ pc' = "call"
    /\ path' = None
    /\ found' = None
    /\ err' = NoErr
    /\ att' = 1
    /\ tried' = <<>>
    /\ last_exc' = NoExc
    /\ df' = NoDf
    /\ sample_lines' = Unbound
    /\ chosen_sep' = ""
    /\ modal_cols' = 0
    /\ kept' = 0
    /\ total' = 0
    /\ cleaned_rows' = <<>>
    /\ found_col' = NoCol
    /\ rule' = 0
    /\ arr' = NoArr
    /\ UNCHANGED <<loggerVars, envVars>>

NextTwice == LoadDataEntry \/ NextRead \/ NextSelect \/ Reinvoke

(***************************************************************************)
(* The data logger, src/data_logger.py: read_sds011 and the main loop.     *)
(* A concentration is kept in tenths of a microgram, the unit of the       *)
(* sensor's frame: pm25 = (data[2] + data[3] * 256) / 10.0.                *)
(***************************************************************************)
GRAPH_WIDTH == 50

\* a value that may be Python's None
Nothing == [some |-> FALSE, v |-> 0]
Just(v) == [some |-> TRUE, v |-> v]

\* the first row of CSV_FILE, written when the file is created
HEADER == [timestamp |-> 0, pm2_5 |-> Nothing, pm10 |-> Nothing, aqi |-> 0]

compute_aqi(x) ==
    IF x <= 120 THEN 50
    ELSE IF x <= 354 THEN 100
    ELSE IF x <= 554 THEN 150
    ELSE IF x <= 1504 THEN 200
    ELSE IF x <= 2504 THEN 300
    ELSE 400

\* the ten bytes the sensor sends in iteration i
SensorFrame(i) ==
    <<170, 192, (7 * (i - 1)) % 256, (i - 1) % 2, (3 * i) % 256, 1, 0, 0, 0, 171>>

\* what ser.read(10) can return: the frame, fewer bytes at the timeout, or
\* ten bytes that do not start at the frame's head
ReadKinds == {"frame", "short", "shifted"}

read(kind, i) ==
    IF kind = "frame" THEN SensorFrame(i)
    ELSE IF kind = "short" THEN SubSeq(SensorFrame(i), 1, 4)
    ELSE Tail(SensorFrame(i)) \o <<170>>

valid(data) == Len(data) = 10 /\ data[1] = 170 /\ data[2] = 192

\* read_sds011(port, ser) with an open connection: three attempts
read_sds011(kinds, raises, i) ==
    IF raises
    THEN [pm2_5 |-> Nothing, pm10 |-> Nothing, status |-> "Error"]
    ELSE LET ok == {a \in 1..3 : valid(read(kinds[a], i))}
         IN  IF ok = {}
             THEN [pm2_5 |-> Nothing, pm10 |-> Nothing, status |-> "Read failed"]
             ELSE LET a == CHOOSE b \in ok : \A c \in ok : b <= c
                      data == read(kinds[a], i)
                  IN  [pm2_5 |-> Just(data[3] + data[4] * 256),
                       pm10 |-> Just(data[5] + data[6] * 256),
                       status |-> "Success"]

\* pm2_5, pm10, status = read_sds011(sensor_port, sensor_ser)
ReadSensor ==
    /\ lpc = "read"
    /\ iter < MaxIter
    /\ \E r \in {read_sds011(kinds, raises, iter + 1) :
                    kinds \in [1..3 -> ReadKinds], raises \in BOOLEAN} :
         /\ r.status # "Success" => nfail < MaxFails
         /\ pm2_5' = r.pm2_5
         /\ pm10' = r.pm10
         /\ status' = r.status
         /\ nfail' = IF r.status = "Success" THEN nfail ELSE nfail + 1
         /\ readings' = IF r.status = "Success"
                        THEN Append(readings, [pm2_5 |-> r.pm2_5.v, pm10 |-> r.pm10.v])
                        ELSE readings
    /\ iter' = iter + 1
    /\ lpc' = "check"
    /\ UNCHANGED <<loaderVars, pm2_5_history, pm10_history, csv_file>>

\* lines 214-221: the row is appended to CSV_FILE
LogRow ==
    /\ lpc = "check"
    /\ pm2_5.some /\ pm10.some
    /\ csv_file' = Append(csv_file, [timestamp |-> iter, pm2_5 |-> pm2_5, pm10 |-> pm10,
                                     aqi |-> compute_aqi(pm2_5.v)])
    /\ lpc' = "history"
    /\ UNCHANGED <<loaderVars, iter, nfail, pm2_5, pm10, status, pm2_5_history,
                   pm10_history, readings>>

\* UpdateHistory dropping the oldest value one reading too early
UpdateHistory_DropsAtWidth ==
    /\ lpc = "history"
    /\ IF Len(pm2_5_history) + 1 >= GRAPH_WIDTH
       THEN /\ pm2_5_history' = Tail(Append(pm2_5_history, pm2_5.v))
            /\ pm10_history' = Tail(Append(pm10_history, pm10.v))
       ELSE /\ pm2_5_history' = Append(pm2_5_history, pm2_5.v)
            /\ pm10_history' = Append(pm10_history, pm10.v)
    /\ lpc' = "display"
    /\ UNCHANGED <<loaderVars, iter, nfail, pm2_5, pm10, status, csv_file, readings>>

\* lines 223-228: append to both histories, pop(0) beyond GRAPH_WIDTH
UpdateHistory ==
    /\ lpc = "history"
    /\ IF Len(pm2_5_history) + 1 > GRAPH_WIDTH
       THEN /\ pm2_5_history' = Tail(Append(pm2_5_history, pm2_5.v))
            /\ pm10_history' = Tail(Append(pm10_history, pm10.v))
       ELSE /\ pm2_5_history' = Append(pm2_5_history, pm2_5.v)
            /\ pm10_history' = Append(pm10_history, pm10.v)
    /\ lpc' = "display"
    /\ UNCHANGED <<loaderVars, iter, nfail, pm2_5, pm10, status, csv_file, readings>>

\* lines 239-244: the else branch, which only builds the text to display
SensorFailed ==
    /\ lpc = "check"
    /\ ~(pm2_5.some /\ pm10.some)
    /\ lpc' = "display"
    /\ UNCHANGED <<loaderVars, iter, nfail, pm2_5, pm10, status, pm2_5_history,
                   pm10_history, csv_file, readings>>

\* lines 246-251: display and sleep, then the next iteration
Display ==
    /\ lpc = "display"
    /\ lpc' = "read"
    /\ UNCHANGED <<loaderVars, iter, nfail, pm2_5, pm10, status, pm2_5_history,
                   pm10_history, csv_file, readings>>

\* lines 253-257: Ctrl+C ends the loop wherever it is
KeyboardInterrupt ==
    /\ lpc \in {"read", "check", "history", "display"}
    /\ lpc' = "stopped"
    /\ UNCHANGED <<loaderVars, iter, nfail, pm2_5, pm10, status, pm2_5_history,
                   pm10_history, csv_file, readings>>

NextLogger ==
    ReadSensor \/ LogRow \/ UpdateHistory \/ SensorFailed \/ Display \/ KeyboardInterrupt

\* the logger's variables while the loader is looked at
LoggerIdle ==
    /\ lpc = "stopped"
    /\ iter = 0
    /\ nfail = 0
    /\ pm2_5 = Nothing
    /\ pm10 = Nothing
    /\ status = ""
    /\ pm2_5_history = <<>>
    /\ pm10_history = <<>>
    /\ csv_file = <<HEADER>>
    /\ readings = <<>>


(***************************************************************************)
(* Initial states.  Each specification draws the inputs of one function    *)
(* from bounded sets and leaves the others at one fixed value.             *)
(***************************************************************************)
F0 == join(BASE_DIR, PREFERRED_FILENAME)

\* a well-formed table of one column
T0 == <<Column(H_pm2_5, <<C_12>>)>>

FsOnly(p) == [q \in Paths |-> IF q = p THEN [exists |-> TRUE, size |-> 1] ELSE Absent]

Locals ==
    /\ found = None
    /\ err = NoErr
    /\ att = 1
    /\ tried = <<>>
    /\ last_exc = NoExc
    /\ df = NoDf
    /\ sample_lines = Unbound
    /\ chosen_sep = ""
    /\ modal_cols = 0
    /\ kept = 0
    /\ total = 0
    /\ cleaned_rows = <<>>
    /\ found_col = NoCol
    /\ rule = 0
    /\ arr = NoArr
    /\ first = NoOutcome
    /\ ncalls = 1

FindCalls ==
    {[op |-> "find_best_csv", base_dir |-> d, preferred |-> n, path |-> None] :
        d \in Dirs, n \in Names}

LoadCall(p) ==
    [op |-> "load_data", base_dir |-> BASE_DIR, preferred |-> PREFERRED_FILENAME, path |-> p]

ReadCall == [op |-> "try_read", base_dir |-> BASE_DIR, preferred |-> PREFERRED_FILENAME, path |-> F0]

\* the files a call can look at; every other file is left absent
Visible(c) ==
    IF c.op = "find_best_csv" THEN {q \in Paths : q.dir = c.base_dir} \cup {DATA_FILE}
    ELSE IF c.path = None THEN {q \in Paths : q.dir = BASE_DIR}
    ELSE {c.path}

\* find_best_csv and the entry of load_data, over file systems
InitFind ==
    /\ call \in FindCalls \cup {LoadCall(p) : p \in Paths \cup {None}}
    /\ fs \in [Paths -> FileStates]
    /\ \A q \in Paths \ Visible(call) : fs[q] = Absent
    /\ listing \in Perms(CsvNames)
    /\ pandas = [k \in 1..7 |-> PdTable(T0)]
    /\ lines = <<Block(1, 1, 1)>>
    /\ readable = TRUE
    /\ pc = "call"
    /\ path = None
    /\ Locals
    /\ LoggerIdle

SpecFind == InitFind /\ [][NextFind]_vars

PdOutcomes == {PdRaises, PdTable(<<>>), PdTable(T0)}

ReadFiles ==
    { <<Block(3, 2, 1)>>,
      <<Block(SAMPLE_SIZE, 2, 1)>>,
      <<Block(SAMPLE_SIZE, 2, 1), Block(1, 3, 1)>> }

ReadFixed ==
    /\ call = ReadCall
    /\ fs = FsOnly(F0)
    /\ listing \in {p \in Perms(CsvNames) : p[1] = PREFERRED_FILENAME /\ p[2] = DATA_NAME}
    /\ pc = "attempts"
    /\ path = F0
    /\ Locals
    /\ LoggerIdle

\* _try_read over what the seven strategies do
InitRead ==
    /\ pandas \in [1..7 -> PdOutcomes]
    /\ lines \in ReadFiles
    /\ readable \in BOOLEAN
    /\ ~readable => \A k \in 1..7 : pandas[k].raises
    /\ ReadFixed

SpecRead == InitRead /\ [][NextRead]_vars

BlockSizes == {1, 4, 400, 1600, SAMPLE_SIZE}
LineKinds == {<<5, 1>>, <<4, 1>>, <<1, 3>>}
Blocks == {Block(n, k[1], k[2]) : n \in BlockSizes, k \in LineKinds}
Files == SeqsUpTo(Blocks, MaxBlocks) \ {<<>>}

\* the modal cleaner over files: strategies 1..6 all fail
InitModal ==
    /\ pandas \in {f \in [1..7 -> PdOutcomes] :
                      \/ \A k \in 1..6 : f[k] = PdRaises
                      \/ \A k \in 1..6 : f[k] = PdTable(<<>>)}
    /\ lines \in Files
    /\ readable = TRUE
    /\ ReadFixed

SpecModal == InitModal /\ [][NextRead]_vars

SelectFixed ==
    /\ call = LoadCall(F0)
    /\ fs = FsOnly(F0)
    /\ listing \in {p \in Perms(CsvNames) : p[1] = PREFERRED_FILENAME /\ p[2] = DATA_NAME}
    /\ lines = <<Block(1, 1, 1)>>
    /\ readable = TRUE
    /\ pc = "select"
    /\ path = F0
    /\ found = None
    /\ err = NoErr
    /\ att = 1
    /\ tried = <<1>>
    /\ last_exc = NoExc
    /\ LoggerIdle
    /\ df = [by |-> 1, cols |-> pandas[1].cols]
    /\ sample_lines = Unbound
    /\ chosen_sep = ""
    /\ modal_cols = 0
    /\ kept = 0
    /\ total = 0
    /\ cleaned_rows = <<>>
    /\ found_col = NoCol
    /\ rule = 0
    /\ arr = NoArr
    /\ first = NoOutcome
    /\ ncalls = 1

\* pandas keeps the labels of a table distinct
Distinct(hs) == \A i, j \in 1..Len(hs) : i # j => hs[i] # hs[j]

\* a numeric column and a column of text
SelectContents == {<<C_12, C_NA>>, <<C_abc, C_7>>}

SelectTables ==
    {[i \in 1..Len(hs) |-> Column(hs[i], cs[i])] :
        <<hs, cs>> \in {x \in SeqsUpTo(Headers, MaxCols) \X SeqsUpTo(SelectContents, MaxCols) :
                          Len(x[1]) = Len(x[2]) /\ Len(x[1]) > 0 /\ Distinct(x[1])}}

\* target-column selection over headers and dtypes
InitSelect ==
    /\ \E t \in SelectTables : pandas = [k \in 1..7 |-> PdTable(t)]
    /\ SelectFixed

SpecSelect == InitSelect /\ [][NextSelect]_vars

CoerceTables ==
    UNION {{ <<Column(H_pm25, cs)>>,
             <<Column(H_time, [i \in 1..Len(cs) |-> C_abc]), Column(H_pm25, cs)>>,
             <<Column(H_pm25, cs), Column(H_pm25_padded, cs)>> } :
           cs \in SeqsUpTo(Cells, MaxRows)}

\* numeric coercion over the cells of the target column
InitCoerce ==
    /\ \E t \in CoerceTables : pandas = [k \in 1..7 |-> PdTable(t)]
    /\ SelectFixed

SpecCoerce == InitCoerce /\ [][NextSelect]_vars

\* strategies 1..k-1 fail in the way given, the others yield the table
Cascade(k, fail, t) == [i \in 1..7 |-> IF i < k THEN fail ELSE PdTable(t)]

\* tables: resolved by alias, resolved but without a number, unresolvable
T_na == <<Column(H_time, <<C_abc, C_abc>>), Column(H_PM25_unit, <<C_NA, C_NA>>)>>
T_none == <<Column(H_time, <<C_abc>>), Column(H_temp, <<C_abc>>)>>

PipelinePandas ==
    {Cascade(k, PdRaises, T0) : k \in 1..8}
    \cup {Cascade(5, PdTable(<<>>), T_na), Cascade(1, PdRaises, T_none)}

PipelineFiles == {<<Block(3, 2, 1)>>, <<Block(SAMPLE_SIZE, 2, 1)>>}

\* the whole pipeline: find_best_csv alone, or load_data from its entry on
Init ==
    /\ call \in FindCalls \cup {LoadCall(p) : p \in Paths \cup {None}}
    /\ fs \in [Paths -> FileStates]
    /\ \A q \in Paths \ Visible(call) : fs[q] = Absent
    /\ IF call.op = "find_best_csv"
       THEN /\ listing \in Perms(CsvNames)
            /\ pandas = Cascade(1, PdRaises, T0)
            /\ lines = <<Block(3, 2, 1)>>
       ELSE /\ listing \in {p \in Perms(CsvNames) : p[1] = EXPORT_NAME}
            /\ pandas \in PipelinePandas
            /\ lines \in PipelineFiles
    /\ readable = TRUE
    /\ pc = "call"
    /\ path = None
    /\ Locals
    /\ LoggerIdle

Spec == Init /\ [][Next]_vars

\* load_data invoked MaxCalls times on one unchanged file system
InitTwice ==
    /\ call \in {LoadCall(None), LoadCall(F0)}
    /\ fs \in [Paths -> FileStates]
    /\ \A q \in Paths \ {r \in Visible(call) : r.name \in CsvNames} : fs[q] = Absent
    /\ listing \in {p \in Perms(CsvNames) : p[1] = EXPORT_NAME}
    /\ pandas \in PipelinePandas
    /\ lines \in PipelineFiles
    /\ readable = TRUE
    /\ pc = "call"
    /\ path = None
    /\ Locals
    /\ LoggerIdle

SpecTwice == InitTwice /\ [][NextTwice]_vars

\* the logger at the top of its loop: histories empty (lines 38-39), the
\* file holding its header (lines 29-35); the loader is not in use
InitLogger ==
    /\ call = ReadCall
    /\ fs = FsOnly(F0)
    /\ listing = <<PREFERRED_FILENAME, DATA_NAME, EXPORT_NAME>>
    /\ pandas = Cascade(1, PdRaises, T0)
    /\ lines = <<Block(1, 1, 1)>>
    /\ readable = TRUE
    /\ pc = "done"
    /\ path = None
    /\ Locals
    /\ lpc = "read"
    /\ iter = 0
    /\ nfail = 0
    /\ pm2_5 = Nothing
    /\ pm10 = Nothing
    /\ status = ""
    /\ pm2_5_history = <<>>
    /\ pm10_history = <<>>
    /\ csv_file = <<HEADER>>
    /\ readings = <<>>

SpecLogger == InitLogger /\ [][NextLogger]_vars

(***************************************************************************)
(* Properties.                                                             *)
(***************************************************************************)
MinOf(S) == CHOOSE x \in S : \A y \in S : x <= y

\* strategy k raised or yielded a table of zero columns
Failed(k) == pandas[k].raises \/ Len(pandas[k].cols) = 0

\* C1: the strategies are attempted in the order 1..7, strategy k+1 only
\* after strategy k raised or yielded zero columns; the table returned is
\* that of the first strategy with at least one column; when strategy 1
\* succeeds no later strategy is attempted.
C1_StrategyOrder ==
    /\ \A i \in 1..Len(tried) : tried[i] = i
    /\ \A i \in 1..Len(tried) : \A j \in 1..(i - 1) : Failed(j)
    /\ df # NoDf =>
          /\ df.by = tried[Len(tried)]
          /\ ~Failed(df.by)
          /\ df.cols = pandas[df.by].cols
    /\ (pc = "done" /\ \E k \in 1..6 : ~Failed(k)) =>
          df.by = MinOf({k \in 1..6 : ~Failed(k)})
    /\ ~Failed(1) => Len(tried) <= 1

\* strategies 1..5 failed and strategy 6 yielded the table
C1_Witness == pc = "done" /\ df.by = 6 /\ tried = <<1, 2, 3, 4, 5, 6>>

\* C2: when all seven strategies fail, _try_read ends with the RuntimeError
\* "Failed to parse file" and no other exception, carrying the error of the
\* last strategy attempted, whatever the length of the file.
C2_AllFailRaisesRuntimeError ==
    (pc = "done" /\ \A k \in 1..7 : Failed(k)) =>
        /\ err.type = "RuntimeError"
        /\ err.last.at = tried[Len(tried)]

\* 80% of the lines have 5 comma-separated fields, 20% have 4, no semicolon
EightyTwenty(blocks) ==
    /\ \A i \in 1..Len(blocks) : blocks[i].s = 1 /\ blocks[i].c \in {4, 5}
    /\ CountOf(blocks, ",", 4) > 0
    /\ CountOf(blocks, ",", 5) = 4 * CountOf(blocks, ",", 4)

\* C3: on an 80%/20% file strategy 7 chooses the comma with modal column
\* count 5, keeps exactly the 5-field lines and reports kept = 0.8 * total.
C3_ModalKeepsFiveFieldLines ==
    (pc = "done" /\ 7 \in Range(tried) /\ EightyTwenty(lines)) =>
        /\ chosen_sep = ","
        /\ modal_cols = 5
        /\ cleaned_rows = clean(lines, ",", 5)
        /\ 5 * kept = 4 * total

Usable(p) == exists(p) /\ getsize(p) > 0

\* the *.csv files of a directory
CsvIn(d) == {q \in Paths : q.dir = d /\ q.name \in CsvNames /\ exists(q)}

\* C4: find_best_csv returns the preferred file if usable, else the fixed
\* fallback file if usable, else the largest non-empty *.csv; what it
\* returns is an existing non-empty file of the given directory.
C4_PriorityWithinDirectory ==
    (call.op = "find_best_csv" /\ pc = "done" /\ err = NoErr) =>
        LET d == call.base_dir
            pref == join(d, call.preferred)
        IN  /\ found.dir = d
            /\ Usable(found)
            /\ Usable(pref) => found = pref
            /\ (~Usable(pref) /\ Usable(DATA_FILE)) => found = DATA_FILE
            /\ (~Usable(pref) /\ ~Usable(DATA_FILE)) =>
                  /\ found \in CsvIn(d)
                  /\ \A q \in CsvIn(d) : getsize(q) <= getsize(found)

\* the candidate files of a call: the preferred file and the *.csv files
Candidates(d, preferred) ==
    CsvIn(d) \cup {q \in {join(d, preferred)} : exists(q)}

\* C5: find_best_csv raises FileNotFoundError when the directory holds no
\* candidate, ValueError when it holds *.csv files and every candidate is
\* zero bytes, and returns no path in either case.
C5_NoCandidateErrors ==
    (call.op = "find_best_csv" /\ pc = "done") =>
        LET cand == Candidates(call.base_dir, call.preferred)
        IN  /\ cand = {} => (err.type = "FileNotFoundError" /\ found = None)
            /\ (CsvIn(call.base_dir) # {} /\ \A q \in cand : getsize(q) = 0) =>
                  (err.type = "ValueError" /\ found = None)

\* C6: a missing or zero-byte file never reaches the parse strategies:
\* load_data raises FileNotFoundError or ValueError before _try_read, and
\* find_best_csv returns no zero-byte file.
C6_EmptyNeverParsed ==
    /\ (call.op = "load_data" /\ (pc \notin {"call", "done"} \/ tried # <<>>)) =>
          Usable(path)
    /\ (call.op = "load_data" /\ pc # "call" /\ call.path # None /\ ~exists(call.path)) =>
          (pc = "done" /\ err.type = "FileNotFoundError" /\ tried = <<>>)
    /\ (call.op = "load_data" /\ pc # "call" /\ call.path # None
            /\ exists(call.path) /\ getsize(call.path) = 0) =>
          (pc = "done" /\ err.type = "ValueError" /\ tried = <<>>)
    /\ (call.op = "load_data" /\ pc = "done" /\ tried = <<>>) =>
          err.type \in {"FileNotFoundError", "ValueError"}
    /\ (call.op = "find_best_csv" /\ pc = "done" /\ err = NoErr) => Usable(found)

\* load_data(path) refused a zero-byte file
C6_Witness ==
    /\ call.op = "load_data"
    /\ call.path # None
    /\ exists(call.path)
    /\ getsize(call.path) = 0
    /\ pc = "done"
    /\ err.type = "ValueError"

\* what the rules of selection see in the table df
AliasHits ==
    {c \in 1..Len(candidates) : \E i \in 1..Len(df.cols) : lower(df.cols[i].name) = candidates[c]}
HeuristicHits == {i \in 1..Len(df.cols) : heuristic(lower(df.cols[i].name))}
NumericTyped ==
    {i \in 1..Len(df.cols) :
        /\ Len(df.cols[i].cells) > 0
        /\ \A r \in 1..Len(df.cols[i].cells) :
              df.cols[i].cells[r] \in NaTokens \/ is_number(df.cols[i].cells[r])}
HasHeader(h) == \E i \in 1..Len(df.cols) : lower(df.cols[i].name) = h
Unresolvable ==
    /\ AliasHits = {}
    /\ HeuristicHits = {}
    /\ Cardinality(NumericTyped) # 1
    /\ ~HasHeader(S_value)
    /\ ~HasHeader(S_measurement)

\* C7: on the trimmed headers the target column is that of the first rule
\* that resolves: the earliest alias matched by a header, else the first
\* column passing the substring heuristics, else the only numeric-typed
\* column, else a column named value, else one named measurement.
C7_SelectionOrder ==
    pc \in {"coerce", "done"} =>
        LET alias == AliasHits
            heur == HeuristicHits
            numeric == NumericTyped
            early == alias = {} /\ heur = {}
        IN  /\ \A i \in 1..Len(df.cols) : df.cols[i].name = strip(pandas[1].cols[i].name)
            /\ alias # {} =>
                  (rule = 1 /\ lower(found_col) = candidates[MinOf(alias)])
            /\ (alias = {} /\ heur # {}) =>
                  (rule = 2 /\ found_col = df.cols[MinOf(heur)].name)
            /\ (early /\ Cardinality(numeric) = 1) =>
                  (rule = 3 /\ found_col = df.cols[MinOf(numeric)].name)
            /\ (early /\ Cardinality(numeric) # 1 /\ HasHeader(S_value)) =>
                  (rule = 4 /\ lower(found_col) = S_value)
            /\ (early /\ Cardinality(numeric) # 1 /\ ~HasHeader(S_value)
                    /\ HasHeader(S_measurement)) =>
                  (rule = 4 /\ lower(found_col) = S_measurement)
            /\ (early /\ Cardinality(numeric) # 1 /\ ~HasHeader(S_value)
                    /\ ~HasHeader(S_measurement)) =>
                  found_col = NoCol

\* the header "PM2.5 (ug/m3)", in second position, resolved by rule 2
C7_Witness ==
    /\ pc = "done"
    /\ rule = 2
    /\ found_col = H_PM25_unit
    /\ Len(df.cols) = 2
    /\ df.cols[2].name = H_PM25_unit

\* C8: when no rule resolves a column load_data raises KeyError listing
\* every column of the table and returns nothing; it never takes a column
\* by position.
C8_UnresolvedRaisesKeyError ==
    pc = "done" =>
        /\ Unresolvable =>
              /\ err.type = "KeyError"
              /\ err.cols = [i \in 1..Len(pandas[1].cols) |-> strip(pandas[1].cols[i].name)]
              /\ ~arr.returned
        /\ err.type = "KeyError" => Unresolvable

\* two columns, none resolved
C8_Witness == pc = "done" /\ err.type = "KeyError" /\ Len(err.cols) = 2 /\ Unresolvable

\* the cells of the column found_col names, when it names exactly one
TargetCells == getitem(df.cols, found_col)[1].cells
OneTarget == found_col # NoCol /\ Len(getitem(df.cols, found_col)) = 1
NumericRows == {i \in 1..Len(TargetCells) : is_number(TargetCells[i])}

\* C9: a series that load_data returns has at least one value; a target
\* column without any entry that coerces to a number makes it raise
\* ValueError.
C9_NeverEmptySeries ==
    /\ arr.returned => Len(arr.values) >= 1
    /\ (pc = "done" /\ OneTarget /\ NumericRows = {}) =>
          (err.type = "ValueError" /\ ~arr.returned)

\* "N/A" in every row of the target column
C9_Witness ==
    /\ pc = "done"
    /\ OneTarget
    /\ TargetCells = <<C_NA, C_NA>>
    /\ err.type = "ValueError"

\* the i-th numeric row of the target column
NthNumericRow(k) == CHOOSE i \in NumericRows : Cardinality({j \in NumericRows : j <= i}) = k

\* C10: the series returned is the numeric entries of the target column in
\* row order: the others are dropped, nothing is put in their place.
C10_SeriesIsNumericSubsequence ==
    arr.returned =>
        /\ OneTarget
        /\ Len(arr.values) = Cardinality(NumericRows)
        /\ \A k \in 1..Len(arr.values) : arr.values[k] = NumVal(TargetCells[NthNumericRow(k)])

\* a non-numeric first row was dropped, the second row kept
C10_Witness ==
    /\ arr.returned
    /\ OneTarget
    /\ TargetCells = <<C_abc, C_3_5>>
    /\ arr.values = <<35>>

\* C12: when strategy 7 runs on a file that can be opened, its sample is the
\* first min(2000, number of lines) lines, also below 2000 lines, and the
\* reconstruction goes on from that sample.
C12_SampleIsPrefixOfFile ==
    (7 \in Range(tried) /\ pc \in {"modal", "done"} /\ readable) =>
        /\ sample_lines = SampleList(Take(lines, Min(SAMPLE_SIZE, TotalLines(lines))))
        /\ pc = "done" => (total = TotalLines(lines) /\ err.type # "UnboundLocalError")

\* C11: load_data invoked again on the unchanged file system and file goes
\* through the same strategies and ends as the first invocation ended: same
\* path, same parsing strategy and table, same column by the same rule, and
\* the same returned values or the same error.
C11_SecondCallRepeatsFirst ==
    ncalls > 1 =>
        /\ Len(tried) <= Len(first.tried)
        /\ tried = SubSeq(first.tried, 1, Len(tried))
        /\ pc = "done" => Outcome = first

C11_Witness ==
    /\ ncalls > 1
    /\ pc = "done"
    /\ arr.returned
    /\ df.by = 3
    /\ first.arr = arr

\* C13: at the top of the logger's loop, after any number of iterations, the
\* two histories have one length, at most GRAPH_WIDTH, and hold the latest
\* min(n, GRAPH_WIDTH) of the n successful reads in arrival order; the file
\* holds one row per successful read, in order, so an iteration whose read
\* failed added no row and changed neither history.
C13_HistoriesAndRows ==
    lpc = "read" =>
        LET n == Len(readings)
            m == Min(n, GRAPH_WIDTH)
        IN  /\ Len(pm2_5_history) = Len(pm10_history)
            /\ Len(pm2_5_history) <= GRAPH_WIDTH
            /\ Len(pm2_5_history) = m
            /\ \A j \in 1..m :
                 /\ pm2_5_history[j] = readings[n - m + j].pm2_5
                 /\ pm10_history[j] = readings[n - m + j].pm10
            /\ n = iter - nfail
            /\ Len(csv_file) = 1 + n
            /\ \A j \in 1..n :
                 /\ csv_file[1 + j].pm2_5 = Just(readings[j].pm2_5)
                 /\ csv_file[1 + j].pm10 = Just(readings[j].pm10)

C13_Witness ==
    /\ lpc = "read"
    /\ nfail > 0
    /\ Len(readings) > GRAPH_WIDTH
    /\ Len(pm2_5_history) = GRAPH_WIDTH
    /\ pm2_5_history[1] = readings[Len(readings) - GRAPH_WIDTH + 1].pm2_5
    /\ status # "Success"

====
